---- MODULE Spec2Model ----
(***************************************************************************)
(* Model of src/src/components/title.tsx: the Title component's effect,    *)
(* its word-wrap utility wrapLines and its asynchronous updateCanvas run.  *)
(*                                                                         *)
(* Strings are sequences of one-character strings.  Lengths in CSS px are  *)
(* integers; devicePixelRatio is carried in tenths (15 = 1.5) and          *)
(* heightOffset in 1/120 px, so that every quotient of the source is an    *)
(* exact integer operation here.  ctx.measureText is the sum of per-glyph  *)
(* advances, proportional to the font size.  The pixels drawn by           *)
(* fillText/strokeText are carried as the list of lines drawn.             *)
(***************************************************************************)
EXTENDS Integers, Sequences, FiniteSets, TLC

VARIABLES
    text, fontSize, width,      \* props of the component (ShaderTextProps)
    hyphenate, lines, pc,       \* wrapLines: its flag, its result, its position
    w, start, lo, hi, cut,      \* locals of the hard-break loop of wrapLines
    device,                     \* useDeviceInfo()
    fontsReady,                 \* document.fonts.ready has resolved
    pending,                    \* updateCanvas closures registered with .then
    issued,                     \* number of executions of the effect
    canvas,                     \* the visible canvas (canvasRef.current)
    contexts,                   \* glsl Canvas objects constructed and not destroyed
    lastRun                     \* locals of the latest updateCanvas invocation

vars == <<text, fontSize, width, hyphenate, lines, pc, w, start, lo, hi, cut,
          device, fontsReady, pending, issued, canvas, contexts, lastRun>>

wrapVars == <<text, fontSize, width, hyphenate, lines, pc>>
breakVars == <<w, start, lo, hi, cut>>
pipeVars == <<device, fontsReady, pending, issued, canvas, contexts, lastRun>>

----------------------------------------------------------------------------
(* Bounds *)

MaxLen == 4
MaxWidth == 4
MaxFontSize == 2
MaxRuns == 2

Alphabet == {"a", "b", "-", " ", "\n"}
WordAlphabet == {"a", "b", "-"}

Texts == UNION {[1..n -> Alphabet] : n \in 0..MaxLen}
Words == UNION {[1..n -> WordAlphabet] : n \in 0..MaxLen}
Widths == -1..MaxWidth
FontSizes == 1..MaxFontSize

Max(x, y) == IF x >= y THEN x ELSE y

----------------------------------------------------------------------------
(* ctx.measureText(s).width <= maxWidth, with ctx.font = `${fontSize}px`.   *)
(* Glyph advances are in half-ems: "b" is one em wide, the others half.     *)

Advance(c) == IF c = "b" THEN 2 ELSE 1

RECURSIVE SumAdvance(_)
SumAdvance(s) == IF s = <<>> THEN 0 ELSE Advance(Head(s)) + SumAdvance(Tail(s))

\* twice the measured width in px
Measure2(s, fs) == fs * SumAdvance(s)

Fits(s, fs, maxWidth) == Measure2(s, fs) <= 2 * maxWidth

----------------------------------------------------------------------------
(* String primitives used by wrapLines *)

IsSpace(c) == c \in {" ", "\n"}

\* raw.split(/\n/)
RECURSIVE SplitLinesFrom(_, _, _, _)
SplitLinesFrom(s, i, cur, acc) ==
    IF i > Len(s) THEN Append(acc, cur)
    ELSE IF s[i] = "\n" THEN SplitLinesFrom(s, i + 1, <<>>, Append(acc, cur))
    ELSE SplitLinesFrom(s, i + 1, Append(cur, s[i]), acc)

SplitLines(raw) == SplitLinesFrom(raw, 1, <<>>, <<>>)

\* para.split(/\s+/): a run of whitespace is one separator
RECURSIVE SplitWordsFrom(_, _, _, _, _)
SplitWordsFrom(s, i, cur, acc, inSep) ==
    IF i > Len(s) THEN Append(acc, cur)
    ELSE IF IsSpace(s[i])
         THEN IF inSep THEN SplitWordsFrom(s, i + 1, cur, acc, TRUE)
              ELSE SplitWordsFrom(s, i + 1, <<>>, Append(acc, cur), TRUE)
    ELSE SplitWordsFrom(s, i + 1, Append(cur, s[i]), acc, FALSE)

SplitWords(para) == SplitWordsFrom(para, 1, <<>>, <<>>, FALSE)

IsBlankOnlyEmpty(para) == para = <<>>

\* para.trim() === ""
IsBlank(para) == \A i \in 1..Len(para) : IsSpace(para[i])

----------------------------------------------------------------------------
(* The hard-break of a long word (wrapLines, hyphenateLongWords branch)     *)

ChunkNoHyphen(word, st, n) == SubSeq(word, st + 1, st + n)

\* w.slice(start, start + n) + (start + n < w.length ? "-" : "")
Chunk(word, st, n) ==
    SubSeq(word, st + 1, st + n) \o (IF st + n < Len(word) THEN <<"-">> ELSE <<>>)

HiAfterMissStuck(mid) == mid

\* hi = mid - 1
HiAfterMiss(mid) == mid - 1

\* lo = mid + 1
LoAfterHit(mid) == mid + 1

\* (lo + hi) >> 1
Mid(l, h) == (l + h) \div 2

RECURSIVE BinarySearch(_, _, _, _, _, _, _)
BinarySearch(word, st, l, h, c, fs, maxWidth) ==
    IF l > h THEN c
    ELSE LET mid == Mid(l, h)
         IN  IF Fits(Chunk(word, st, mid), fs, maxWidth)
             THEN BinarySearch(word, st, LoAfterHit(mid), h, mid, fs, maxWidth)
             ELSE BinarySearch(word, st, l, HiAfterMiss(mid), c, fs, maxWidth)

RECURSIVE HardBreak(_, _, _, _, _)
HardBreak(word, st, out, fs, maxWidth) ==
    IF st >= Len(word) THEN out
    ELSE LET c == BinarySearch(word, st, 1, Len(word) - st, 1, fs, maxWidth)
         IN  HardBreak(word, st + c, Append(out, Chunk(word, st, c)), fs, maxWidth)

----------------------------------------------------------------------------
(* wrapLines *)

\* the loop over the words of one paragraph, and the flush after it
RECURSIVE WrapWords(_, _, _, _, _, _, _)
WrapWords(words, j, line, out, fs, maxWidth, hyph) ==
    IF j > Len(words)
    THEN IF line # <<>> THEN Append(out, line) ELSE out
    ELSE LET wd == words[j]
             test == IF line # <<>> THEN line \o <<" ">> \o wd ELSE wd
         IN  IF Fits(test, fs, maxWidth)
             THEN WrapWords(words, j + 1, test, out, fs, maxWidth, hyph)
             ELSE IF line = <<>>
                  THEN IF hyph
                       THEN WrapWords(words, j + 1, <<>>,
                                      HardBreak(wd, 0, out, fs, maxWidth),
                                      fs, maxWidth, hyph)
                       ELSE WrapWords(words, j + 1, <<>>, Append(out, wd),
                                      fs, maxWidth, hyph)
                  ELSE WrapWords(words, j + 1, wd, Append(out, line),
                                 fs, maxWidth, hyph)

\* the loop over the paragraphs
RECURSIVE WrapParagraphs(_, _, _, _, _, _)
WrapParagraphs(paragraphs, i, out, fs, maxWidth, hyph) ==
    IF i > Len(paragraphs) THEN out
    ELSE IF IsBlank(paragraphs[i])
         THEN WrapParagraphs(paragraphs, i + 1, Append(out, <<>>), fs, maxWidth, hyph)
         ELSE WrapParagraphs(paragraphs, i + 1,
                  WrapWords(SplitWords(paragraphs[i]), 1, <<>>, out, fs, maxWidth, hyph),
                  fs, maxWidth, hyph)

wrapLines(raw, fs, maxWidth, hyph) ==
    WrapParagraphs(SplitLines(raw), 1, <<>>, fs, maxWidth, hyph)

----------------------------------------------------------------------------
(* Initial values of the parts a specification does not use *)

\* the locals of an invocation that has not sized anything: a fresh canvas
\* element is 300 x 150
NoRun == [id |-> 0, ctx |-> FALSE, dpr |-> 10, fontSize |-> 0, width |-> 0,
          lineCount |-> 0, lineHeight |-> 0, cssHeight |-> 0, heightOffset |-> 0,
          textCanvas |-> [width |-> 300, height |-> 150]]

IdleBreak == w = <<>> /\ start = 0 /\ lo = 0 /\ hi = 0 /\ cut = 0

IdlePipe ==
    /\ device = [os |-> "other", browser |-> "other"]
    /\ fontsReady = FALSE
    /\ pending = <<>>
    /\ issued = 0
    /\ canvas = [styleWidth |-> -1, styleHeight |-> -1, width |-> 300, height |-> 150]
    /\ contexts = <<>>
    /\ lastRun = NoRun

----------------------------------------------------------------------------
(* WrapSpec: wrapLines as a function of its arguments *)

WrapInit ==
    /\ text \in Texts
    /\ fontSize \in FontSizes
    /\ width \in Widths
    /\ hyphenate \in BOOLEAN
    /\ lines = <<>>
    /\ pc = "call"
    /\ IdleBreak
    /\ IdlePipe

WrapCall ==
    /\ pc = "call"
    /\ lines' = wrapLines(text, fontSize, width, hyphenate)
    /\ pc' = "returned"
    /\ UNCHANGED <<text, fontSize, width, hyphenate>>
    /\ UNCHANGED breakVars
    /\ UNCHANGED pipeVars

WrapNext == WrapCall

WrapSpec == WrapInit /\ [][WrapNext]_vars

----------------------------------------------------------------------------
(* Helpers of the statements about wrapLines *)

Last(s) == s[Len(s)]
Front(s) == SubSeq(s, 1, Len(s) - 1)

RECURSIVE Flatten(_)
Flatten(ss) == IF ss = <<>> THEN <<>> ELSE Head(ss) \o Flatten(Tail(ss))

RECURSIVE StripTrailingHyphens(_)
StripTrailingHyphens(s) ==
    IF s # <<>> /\ Last(s) = "-" THEN StripTrailingHyphens(Front(s)) ELSE s

IsSingleWord(t) == t # <<>> /\ \A i \in 1..Len(t) : ~IsSpace(t[i])

Returned == pc = "returned"

\* the call the pipeline makes: hyphenation on, a text, a width no narrower
\* than the widest glyph ("b")
C1Case == Returned /\ hyphenate /\ text # <<>> /\ Fits(<<"b">>, fontSize, width)

\* C1: with hyphenation enabled, a non-empty text and maxWidth at least the
\* widest glyph, every returned line measures at most maxWidth.
C1_EveryLineFits ==
    C1Case => \A i \in 1..Len(lines) : Fits(lines[i], fontSize, width)

\* a single word wider than maxWidth, hyphenation on
C2Case == Returned /\ hyphenate /\ IsSingleWord(text) /\ ~Fits(text, fontSize, width)

\* C2 as claimed: more than one line, every line but the last ends in "-", and
\* the lines with their trailing hyphens stripped concatenate to the word.
C2_StripRoundTrip ==
    C2Case =>
        /\ Len(lines) > 1
        /\ \A i \in 1..(Len(lines) - 1) : lines[i] # <<>> /\ Last(lines[i]) = "-"
        /\ Flatten([i \in 1..Len(lines) |-> StripTrailingHyphens(lines[i])]) = text

\* C2 as amended: a one-character word comes back as one line; a longer word
\* gives more than one line; every line but the last ends in "-"; removing
\* exactly that one final hyphen from every line but the last, and nothing
\* from the last, concatenates to the word.
C2_OneHyphenRoundTrip ==
    C2Case =>
        /\ Len(text) >= 2 => Len(lines) > 1
        /\ Len(text) = 1 => lines = <<text>>
        /\ \A i \in 1..(Len(lines) - 1) : lines[i] # <<>> /\ Last(lines[i]) = "-"
        /\ Flatten([i \in 1..Len(lines) |->
                      IF i < Len(lines) THEN Front(lines[i]) ELSE lines[i]]) = text

\* a word ending in "-" was broken into several lines
C2_Witness ==
    C2Case /\ Len(lines) >= 2 /\ Last(text) = "-" /\ \E i \in 1..Len(text) : text[i] # "-"

\* what one paragraph must contribute: one empty line when it is empty or all
\* spaces, else the lines of that paragraph wrapped alone
ParagraphLines(para) ==
    IF \A i \in 1..Len(para) : para[i] = " " THEN << <<>> >>
    ELSE wrapLines(para, fontSize, width, hyphenate)

\* C3: the result is the paragraphs' lines in source order, a blank paragraph
\* giving exactly one empty line in its place; "a\n\nb" gives "a", "", "b".
C3_ParagraphsInOrder ==
    Returned =>
        /\ LET paragraphs == SplitLines(text)
           IN  lines = Flatten([i \in 1..Len(paragraphs) |-> ParagraphLines(paragraphs[i])])
        /\ text = <<"a", "\n", "\n", "b">> => lines = << <<"a">>, <<>>, <<"b">> >>

C3_Witness ==
    Returned /\ text = <<"a", "\n", "\n", "b">> /\ lines = << <<"a">>, <<>>, <<"b">> >>
       /\ ~Fits(<<"a">>, fontSize, width)

----------------------------------------------------------------------------
(* BreakSpec: the hard-break loop of wrapLines, one step per loop test,     *)
(* binary-search probe and push.  It is entered with line empty and a word  *)
(* w that does not fit maxWidth (here width), at the font size fontSize.    *)

BreakInit ==
    /\ w \in Words
    /\ fontSize \in FontSizes
    /\ width \in Widths
    /\ ~Fits(w, fontSize, width)
    /\ text = w
    /\ hyphenate = TRUE
    /\ lines = <<>>
    /\ start = 0
    /\ lo = 0 /\ hi = 0 /\ cut = 0
    /\ pc = "while"
    /\ IdlePipe

\* while (start < w.length) { let lo = 1, hi = w.length - start, cut = 1;
BreakEnter ==
    /\ pc = "while"
    /\ start < Len(w)
    /\ lo' = 1
    /\ hi' = Len(w) - start
    /\ cut' = 1
    /\ pc' = "search"
    /\ UNCHANGED <<text, fontSize, width, hyphenate, lines, w, start>>
    /\ UNCHANGED pipeVars

\* the while condition fails: line = ""
BreakExit ==
    /\ pc = "while"
    /\ start >= Len(w)
    /\ pc' = "done"
    /\ UNCHANGED <<text, fontSize, width, hyphenate, lines>>
    /\ UNCHANGED breakVars
    /\ UNCHANGED pipeVars

\* one probe of while (lo <= hi) whose chunk fits
SearchHit ==
    /\ pc = "search"
    /\ lo <= hi
    /\ Fits(Chunk(w, start, Mid(lo, hi)), fontSize, width)
    /\ cut' = Mid(lo, hi)
    /\ lo' = LoAfterHit(Mid(lo, hi))
    /\ UNCHANGED <<text, fontSize, width, hyphenate, lines, pc, w, start, hi>>
    /\ UNCHANGED pipeVars

\* one probe of while (lo <= hi) whose chunk does not fit
SearchMiss ==
    /\ pc = "search"
    /\ lo <= hi
    /\ ~Fits(Chunk(w, start, Mid(lo, hi)), fontSize, width)
    /\ hi' = HiAfterMiss(Mid(lo, hi))
    /\ UNCHANGED <<text, fontSize, width, hyphenate, lines, pc, w, start, lo, cut>>
    /\ UNCHANGED pipeVars

\* lo > hi: the inner loop ends
SearchEnd ==
    /\ pc = "search"
    /\ lo > hi
    /\ pc' = "push"
    /\ UNCHANGED <<text, fontSize, width, hyphenate, lines>>
    /\ UNCHANGED breakVars
    /\ UNCHANGED pipeVars

\* lines.push(chunk); start += cut;
BreakPush ==
    /\ pc = "push"
    /\ lines' = Append(lines, Chunk(w, start, cut))
    /\ start' = start + cut
    /\ pc' = "while"
    /\ UNCHANGED <<text, fontSize, width, hyphenate, w, lo, hi, cut>>
    /\ UNCHANGED pipeVars

BreakNext ==
    \/ BreakEnter
    \/ BreakExit
    \/ SearchHit
    \/ SearchMiss
    \/ SearchEnd
    \/ BreakPush

\* the loop is straight-line code: it keeps executing while it has a next step
BreakSpec == BreakInit /\ [][BreakNext]_vars /\ WF_vars(BreakNext)

\* C10: the hard-break terminates for every word and every maxWidth: each
\* binary search ends with 1 <= cut <= remaining length, each outer iteration
\* pushes one chunk and advances start by at least one, start never passes the
\* end of the word, and the loop ends with the whole word consumed.
C10_HardBreakTerminates ==
    /\ [](pc = "push" => cut >= 1 /\ cut <= Len(w) - start)
    /\ [][pc = "push" => start' > start /\ Len(lines') = Len(lines) + 1]_vars
    /\ [](start <= Len(w))
    /\ [](pc = "done" => start = Len(w))
    /\ <>(pc = "done")

\* a word broken into three or more chunks under a maxWidth of zero or less
C10_Witness ==
    pc = "done" /\ width <= 0 /\ Len(lines) >= 3 /\ start = Len(w)

----------------------------------------------------------------------------
(* updateCanvas: sizes.  dpr is in tenths, heightOffset and the CSS height  *)
(* of the visible canvas in 1/120 px.                                       *)

\* window.devicePixelRatio || 1
Dpr(raw) == IF raw = 0 THEN 10 ELSE raw

\* Math.ceil(fontSize * 0.8)
LineHeight(fs) == -((-(fs * 8)) \div 10)

RasterWidthUnclamped(wd, dpr) == (wd * dpr) \div 10

\* textCanvas.width = Math.max(1, width * dpr), truncated by the canvas
RasterWidth(wd, dpr) == Max(10, wd * dpr) \div 10

\* textCanvas.height = Math.max(1, lines.length * lineHeight * dpr)
RasterHeight(n, lh, dpr) == Max(10, n * lh * dpr) \div 10

\* Math.max(1, lines.length * lineHeight)
CssHeight(n, lh) == Max(1, n * lh)

PadDivisorSwapped(dev) == IF dev.os = "ios" \/ dev.browser = "safari" THEN 6 ELSE 12

\* device.os === "ios" || device.browser === "safari" ? 12 : 6
PadDivisor(dev) == IF dev.os = "ios" \/ dev.browser = "safari" THEN 12 ELSE 6

\* lines.length * 2.7 * (fontSize / k), in 1/120 px
HeightOffset(n, fs, k) == (n * 27 * fs * 12) \div k

\* Math.max(1, Math.floor(width * dpr))
VisibleWidth(wd, dpr) == Max(1, (wd * dpr) \div 10)

\* Math.max(1, Math.floor(cssHeight * dpr))
VisibleHeight(cssHeight, dpr) == Max(1, (cssHeight * dpr) \div 10)

\* canvas.style.width / height = `${v}px`: a negative length is not a valid
\* value and leaves the property as it was
SetCssLength(old, v) == IF v < 0 THEN old ELSE v

\* the device-pixel height taken from the CSS height with heightOffset added
ResizeFromStyleHeight(cv, wd, dpr, cssHeight, offset) ==
    [styleWidth |-> SetCssLength(cv.styleWidth, wd),
     styleHeight |-> SetCssLength(cv.styleHeight, 120 * cssHeight + offset),
     width |-> VisibleWidth(wd, dpr),
     height |-> Max(1, ((120 * cssHeight + offset) * dpr) \div 1200)]

\* canvas.style.width, canvas.style.height, canvas.width, canvas.height
Resize(cv, wd, dpr, cssHeight, offset) ==
    [styleWidth |-> SetCssLength(cv.styleWidth, wd),
     styleHeight |-> SetCssLength(cv.styleHeight, 120 * cssHeight + offset),
     width |-> VisibleWidth(wd, dpr),
     height |-> VisibleHeight(cssHeight, dpr)]

SizedCanvasNoAbort(cv, ctxOk, wd, dpr, cssHeight, offset) ==
    Resize(cv, wd, dpr, cssHeight, offset)

\* if (!ctx) return;  ...  the sizing of the visible canvas
SizedCanvas(cv, ctxOk, wd, dpr, cssHeight, offset) ==
    IF ctxOk THEN Resize(cv, wd, dpr, cssHeight, offset) ELSE cv

----------------------------------------------------------------------------
(* Spec: the component.  Each execution of the effect registers an          *)
(* updateCanvas closure on document.fonts.ready; the closures run in the    *)
(* order they were registered once the promise has resolved.                *)

PropTexts == {<<"a", " ", "b">>, <<"b", "b", "\n", "a">>}
PropFontSizes == {0, 10}
PropWidths == {-1, 0, 12}
DevicePixelRatios == {0, 10, 15}
Devices == {[os |-> "ios", browser |-> "chrome"],
            [os |-> "macos", browser |-> "safari"],
            [os |-> "android", browser |-> "chrome"]}

Closure(id) == [id |-> id, text |-> text', fontSize |-> fontSize', width |-> width']

\* mount: the first render and the first execution of the effect
Init ==
    /\ text \in PropTexts
    /\ fontSize \in PropFontSizes
    /\ width \in PropWidths
    /\ hyphenate = TRUE
    /\ lines = <<>>
    /\ pc = "mounted"
    /\ IdleBreak
    /\ device \in Devices
    /\ fontsReady = FALSE
    /\ pending = <<[id |-> 1, text |-> text, fontSize |-> fontSize, width |-> width]>>
    /\ issued = 1
    /\ canvas = [styleWidth |-> -1, styleHeight |-> -1, width |-> 300, height |-> 150]
    /\ contexts = <<>>
    /\ lastRun = NoRun

\* a dependency of the effect changes (text, fontSize, width, or one of
\* color, outline, outlineColor, which leave these three as they are): the
\* effect runs again.  Once the promise has resolved, a registered closure
\* runs as a microtask, before the next render.
ChangeProps ==
    /\ issued < MaxRuns
    /\ fontsReady => pending = <<>>
    /\ text' \in PropTexts
    /\ fontSize' \in PropFontSizes
    /\ width' \in PropWidths
    /\ issued' = issued + 1
    /\ pending' = Append(pending, Closure(issued + 1))
    /\ UNCHANGED <<hyphenate, lines, pc>>
    /\ UNCHANGED breakVars
    /\ UNCHANGED <<device, fontsReady, canvas, contexts, lastRun>>

\* document.fonts.ready resolves
FontsReady ==
    /\ ~fontsReady
    /\ fontsReady' = TRUE
    /\ UNCHANGED wrapVars
    /\ UNCHANGED breakVars
    /\ UNCHANGED <<device, pending, issued, canvas, contexts, lastRun>>

\* one invocation of updateCanvas, which has no await and runs to its end
UpdateCanvas ==
    /\ fontsReady
    /\ pending # <<>>
    /\ \E ctxOk \in BOOLEAN, raw \in DevicePixelRatios :
         LET r == Head(pending)
             dpr == Dpr(raw)
             wrapped == wrapLines(r.text, r.fontSize, r.width, TRUE)
             n == Len(wrapped)
             lineHeight == LineHeight(r.fontSize)
             textCanvas == [width |-> RasterWidth(r.width, dpr),
                            height |-> RasterHeight(n, lineHeight, dpr)]
             cssHeight == CssHeight(n, lineHeight)
             heightOffset == HeightOffset(n, r.fontSize, PadDivisor(device))
         IN  /\ canvas' = SizedCanvas(canvas, ctxOk, r.width, dpr, cssHeight, heightOffset)
             /\ contexts' =
                  IF ctxOk
                  THEN Append(contexts, [owner |-> r.id,
                                         texture |-> [canvas |-> textCanvas,
                                                      lines |-> wrapped]])
                  ELSE contexts
             /\ lastRun' =
                  IF ctxOk
                  THEN [id |-> r.id, ctx |-> TRUE, dpr |-> dpr,
                        fontSize |-> r.fontSize, width |-> r.width,
                        lineCount |-> n, lineHeight |-> lineHeight,
                        cssHeight |-> cssHeight, heightOffset |-> heightOffset,
                        textCanvas |-> textCanvas]
                  ELSE [NoRun EXCEPT !.id = r.id, !.dpr = dpr]
    /\ pending' = Tail(pending)
    /\ UNCHANGED wrapVars
    /\ UNCHANGED breakVars
    /\ UNCHANGED <<device, fontsReady, issued>>

Next ==
    \/ ChangeProps
    \/ FontsReady
    \/ UpdateCanvas

Spec == Init /\ [][Next]_vars

----------------------------------------------------------------------------
(* Statements about updateCanvas *)

\* the latest invocation had a 2D context and reached the sizing steps
Sized == lastRun.id > 0 /\ lastRun.ctx

IsNarrow(dev) == dev.os = "ios" \/ dev.browser = "safari"

\* C4 as claimed: with fontSize and lineCount equal, heightOffset under the
\* divisor 12 (ios / safari) is twice heightOffset under the divisor 6.
C4_NarrowDoubles ==
    Sized =>
        IF IsNarrow(device)
        THEN lastRun.heightOffset = 2 * HeightOffset(lastRun.lineCount, lastRun.fontSize, 6)
        ELSE 2 * lastRun.heightOffset = HeightOffset(lastRun.lineCount, lastRun.fontSize, 12)

\* C4 as amended: with fontSize and lineCount equal, heightOffset under the
\* divisor 12 (ios / safari) is exactly half of heightOffset under the
\* divisor 6.
C4_NarrowHalves ==
    Sized =>
        IF IsNarrow(device)
        THEN 2 * lastRun.heightOffset = HeightOffset(lastRun.lineCount, lastRun.fontSize, 6)
        ELSE lastRun.heightOffset = 2 * HeightOffset(lastRun.lineCount, lastRun.fontSize, 12)

C4_Witness == Sized /\ IsNarrow(device) /\ lastRun.heightOffset > 0

\* C5: once a run has reached the sizing steps, the offscreen canvas and the
\* visible canvas are at least 1 device pixel wide and high.
C5_DimensionsAtLeastOne ==
    Sized =>
        /\ lastRun.textCanvas.width >= 1
        /\ lastRun.textCanvas.height >= 1
        /\ canvas.width >= 1
        /\ canvas.height >= 1

\* a run with a negative width and a zero line height
C5_Witness ==
    Sized /\ lastRun.width < 0 /\ lastRun.lineCount * lastRun.lineHeight = 0
          /\ lastRun.dpr > 10 /\ canvas.width = 1 /\ lastRun.textCanvas.height = 1

\* C6: an invocation that gets no 2D context leaves the visible canvas (its
\* CSS size, its device-pixel size) and its shader contexts and textures as
\* they were.
C6_NoContextNoUpdate ==
    [][(lastRun'.id # lastRun.id /\ ~lastRun'.ctx)
          => (canvas' = canvas /\ contexts' = contexts)]_vars

\* an invocation without a context, after one that had sized the canvas
C6_Witness == lastRun.id > 1 /\ ~lastRun.ctx /\ contexts # <<>> /\ canvas.styleHeight >= 0

\* C7: an invocation writes to the visible canvas and creates its shader
\* context only if no newer run has been issued since it was.
C7_SupersededRunDiscards ==
    [][Len(contexts') > Len(contexts) => Head(pending).id = issued]_vars

\* C8: at most one shader context is live on the visible canvas.
C8_AtMostOneContext == Len(contexts) <= 1

\* C9 as claimed: the device-pixel height is max(1, floor(h * dpr)) for h the
\* CSS height the run assigns (cssHeight + heightOffset), and the
\* device-pixel width is max(1, floor(width * dpr)).
C9_HeightFromStyleHeight ==
    Sized =>
        /\ canvas.height =
             Max(1, ((120 * lastRun.cssHeight + lastRun.heightOffset) * lastRun.dpr) \div 1200)
        /\ canvas.width = Max(1, (lastRun.width * lastRun.dpr) \div 10)

\* C9 as amended: the device-pixel height is max(1, floor(h * dpr)) for
\* h = max(1, lineCount * lineHeight), the CSS height without heightOffset,
\* and the device-pixel width is max(1, floor(width * dpr)).
C9_HeightFromRasterHeight ==
    Sized =>
        /\ canvas.height =
             Max(1, (Max(1, lastRun.lineCount * lastRun.lineHeight) * lastRun.dpr) \div 10)
        /\ canvas.width = Max(1, (lastRun.width * lastRun.dpr) \div 10)

\* a run whose heightOffset is worth whole device pixels
C9_Witness ==
    Sized /\ lastRun.heightOffset * lastRun.dpr >= 1200 /\ lastRun.dpr = 15
          /\ canvas.height > 1 /\ canvas.width > 1

====
